---- MODULE Spec2Model ----
(***************************************************************************)
(* Model of transformer_engine/common/normalization/kernel_traits.h.       *)
(*                                                                         *)
(* The header defines three class templates whose enumerators and          *)
(* static_asserts are evaluated when the template is instantiated.  One    *)
(* instantiation is one behaviour of the model: Init draws the template    *)
(* arguments, and the action named after the template evaluates every      *)
(* enumerator and every static_assert of that template.  An instantiation  *)
(* whose static_assert fails, or whose enumerator initialiser divides by   *)
(* zero (not a constant expression), does not compile: it is "rejected"    *)
(* and produces no constants.                                              *)
(*                                                                         *)
(* A type argument is represented by its sizeof.  All values in the        *)
(* bounded argument sets are far below 2^31, so none of the unsigned       *)
(* 32-bit / size_t products of the header wraps.                           *)
(***************************************************************************)
EXTENDS Integers, FiniteSets

VARIABLES traits, args, pc, enums

vars == <<traits, args, pc, enums>>

----------------------------------------------------------------------------
(* Bounds of the drawn template arguments.                                 *)

MaxHiddenWarps == 4
MaxHiddenRem == 1
MaxHiddenSteps == 4
MaxCtasPerRow == 2
MaxWarpsM == 2
MaxWarpsN == 4
MaxCtaWarps == 64
MaxReducerUnits == 1

(* sizeof of the element types the kernels are instantiated with:          *)
(* fp8 (1), fp16 / bf16 (2), fp32 (4).                                     *)
TypeSizes == {1, 2, 4}

(* HIDDEN_SIZE_: a positive row length; small sizes at and just above the  *)
(* multiples of the warp width, and the multiples of 256 up to 1024.       *)
HiddenSizes ==
  {32 * k + r : k \in 1..MaxHiddenWarps, r \in 0..MaxHiddenRem}
    \cup {256 * k : k \in 1..MaxHiddenSteps}

(* BYTES_PER_LDG_ is any uint32_t; 16 is the default of Kernel_traits.     *)
BytesPerLdgValues == {0, 2, 4, 6, 8, 16}

(* THREADS_PER_CTA_ of Kernel_traits_finalize: a non-empty block of whole  *)
(* warps, or of whole warps and one more thread.                           *)
ThreadsPerCtaValues == {32 * k + r : k \in 1..MaxCtaWarps, r \in 0..1}

(* Reducer<...>::SMEM_BYTES is defined in utils.cuh; the header only reads *)
(* it, so it is an input of the instantiation.                             *)
ReducerSmemValues == {128 * k : k \in 0..MaxReducerUnits}

----------------------------------------------------------------------------
(* Kernel_traits_base                                                      *)

THREADS_PER_WARP == 32

(* Integer division of a constant expression; the caller checks b # 0.     *)
Div(a, b) == IF b = 0 THEN 0 ELSE a \div b

(* sizeof of an enumerator of an unscoped enum without a fixed underlying   *)
(* type: the underlying type is int-sized whenever the value fits in an    *)
(* int or unsigned int.                                                    *)
SizeofEnum(v) == 4

----------------------------------------------------------------------------
(* Kernel_traits_finalize                                                  *)

Finalize_ROWS_PER_CTA(a) == a.THREADS_PER_CTA \div THREADS_PER_WARP

Finalize_ELTS_PER_LDG(a) == a.BYTES_PER_LDG \div a.compute_t

Finalize_BYTES_PER_STG(a) == Finalize_ELTS_PER_LDG(a) * a.weight_t

Finalize_COLS(a) == Div(a.HIDDEN_SIZE * a.compute_t, a.BYTES_PER_LDG)

Finalize_SMEM_BYTES_TRANSPOSE(a) == a.THREADS_PER_CTA * a.BYTES_PER_LDG

Finalize_SMEM_BYTES_OUTPUT(a) == THREADS_PER_WARP * a.BYTES_PER_LDG

Mut_Finalize_SMEM_BYTES_PER_CTA(a) ==
  2 * Finalize_SMEM_BYTES_TRANSPOSE(a) + Finalize_SMEM_BYTES_OUTPUT(a)

Finalize_SMEM_BYTES_PER_CTA(a) ==
  2 * Finalize_SMEM_BYTES_TRANSPOSE(a) + 2 * Finalize_SMEM_BYTES_OUTPUT(a)

Finalize_CTAS(a) == Finalize_COLS(a) \div THREADS_PER_WARP

Mut_RowsPerCtaAssert(a) == Finalize_ROWS_PER_CTA(a) <= 2 * THREADS_PER_WARP

(* static_assert(ROWS_PER_CTA <= THREADS_PER_WARP)                          *)
RowsPerCtaAssert(a) == Finalize_ROWS_PER_CTA(a) <= THREADS_PER_WARP

(* static_assert(sizeof(BYTES_PER_LDG) == 4, ...)                           *)
LdgWidthAssert(a) == SizeofEnum(a.BYTES_PER_LDG) = 4

(* static_assert(THREADS_PER_CTA == ROWS_PER_CTA * THREADS_PER_WARP, ...)   *)
OneWarpPerRowAssert(a) ==
  a.THREADS_PER_CTA = Finalize_ROWS_PER_CTA(a) * THREADS_PER_WARP

(* static_assert(COLS * BYTES_PER_LDG == HIDDEN_SIZE_ * sizeof(compute_t_)) *)
ColsExactAssert(a) ==
  Finalize_COLS(a) * a.BYTES_PER_LDG = a.HIDDEN_SIZE * a.compute_t

Mut_ColsWarpAssert(a) == Finalize_COLS(a) % (THREADS_PER_WARP \div 2) = 0

(* static_assert(COLS % THREADS_PER_WARP == 0)                              *)
ColsWarpAssert(a) == Finalize_COLS(a) % THREADS_PER_WARP = 0

(* Every enumerator initialiser is a constant expression.                  *)
FinalizeWellFormed(a) == a.BYTES_PER_LDG # 0

FinalizeCompiles(a) ==
  /\ FinalizeWellFormed(a)
  /\ RowsPerCtaAssert(a)
  /\ LdgWidthAssert(a)
  /\ OneWarpPerRowAssert(a)
  /\ ColsExactAssert(a)
  /\ ColsWarpAssert(a)

FinalizeEnums(a) ==
  [ HIDDEN_SIZE          |-> a.HIDDEN_SIZE,
    THREADS_PER_CTA      |-> a.THREADS_PER_CTA,
    ROWS_PER_CTA         |-> Finalize_ROWS_PER_CTA(a),
    BYTES_PER_LDG        |-> a.BYTES_PER_LDG,
    ELTS_PER_LDG         |-> Finalize_ELTS_PER_LDG(a),
    BYTES_PER_STG        |-> Finalize_BYTES_PER_STG(a),
    COLS                 |-> Finalize_COLS(a),
    SMEM_BYTES_TRANSPOSE |-> Finalize_SMEM_BYTES_TRANSPOSE(a),
    SMEM_BYTES_OUTPUT    |-> Finalize_SMEM_BYTES_OUTPUT(a),
    SMEM_BYTES_PER_CTA   |-> Finalize_SMEM_BYTES_PER_CTA(a),
    CTAS                 |-> Finalize_CTAS(a) ]

----------------------------------------------------------------------------
(* Kernel_traits                                                           *)

Traits_NUM_ELTS(a) == a.BYTES_PER_LDG \div a.input_t

Traits_THREADS_PER_ROW(a) == a.WARPS_N * THREADS_PER_WARP

Traits_THREADS_PER_CTA(a) == a.WARPS_M * Traits_THREADS_PER_ROW(a)

Traits_ROWS_PER_CTA(a) == a.WARPS_M

Traits_BYTES_PER_ROW(a) == a.HIDDEN_SIZE * a.input_t

Traits_BYTES_PER_ROW_PER_CTA(a) == Traits_THREADS_PER_ROW(a) * a.BYTES_PER_LDG

Mut_Traits_SMEM_BYTES_WGRAD(a) ==
  IF a.CTAS_PER_ROW >= 1
    THEN 0
    ELSE Traits_ROWS_PER_CTA(a) * a.HIDDEN_SIZE * a.compute_t

Traits_SMEM_BYTES_WGRAD(a) ==
  IF a.CTAS_PER_ROW > 1
    THEN 0
    ELSE Traits_ROWS_PER_CTA(a) * a.HIDDEN_SIZE * a.compute_t

Traits_SMEM_BYTES_DGRAD(a) == a.REDUCER_SMEM_BYTES

Traits_SMEM_BYTES(a) == Traits_SMEM_BYTES_DGRAD(a) + Traits_SMEM_BYTES_WGRAD(a)

Traits_ELTS_PER_LDG(a) == a.BYTES_PER_LDG \div a.input_t

Traits_VEC_COLS_PER_LDG(a) == a.CTAS_PER_ROW * Traits_THREADS_PER_ROW(a)

Traits_VEC_COLS(a) == Div(a.HIDDEN_SIZE, Traits_ELTS_PER_LDG(a))

Traits_LDGS(a) == Div(Traits_VEC_COLS(a), Traits_VEC_COLS_PER_LDG(a))

Mut_MultiRowAssert(a) == a.WARPS_M >= 1 \/ a.CTAS_PER_ROW = 1

(* static_assert(WARPS_M == 1 || CTAS_PER_ROW == 1)                         *)
MultiRowAssert(a) == a.WARPS_M = 1 \/ a.CTAS_PER_ROW = 1

Mut_OutputSizeAssert(a) == a.compute_t >= a.output_t

(* static_assert(sizeof(input_t) >= sizeof(output_t))                       *)
OutputSizeAssert(a) == a.input_t >= a.output_t

(* static_assert(sizeof(input_t) >= sizeof(weight_t))                       *)
WeightSizeAssert(a) == a.input_t >= a.weight_t

(* static_assert(LDGS * VEC_COLS_PER_LDG == VEC_COLS)                       *)
LdgsExactAssert(a) ==
  Traits_LDGS(a) * Traits_VEC_COLS_PER_LDG(a) = Traits_VEC_COLS(a)

(* Every enumerator initialiser is a constant expression.                  *)
TraitsWellFormed(a) ==
  /\ Traits_ELTS_PER_LDG(a) # 0
  /\ Traits_VEC_COLS_PER_LDG(a) # 0

TraitsCompiles(a) ==
  /\ TraitsWellFormed(a)
  /\ MultiRowAssert(a)
  /\ OutputSizeAssert(a)
  /\ WeightSizeAssert(a)
  /\ LdgsExactAssert(a)

TraitsEnums(a) ==
  [ CTAS_PER_ROW          |-> a.CTAS_PER_ROW,
    WARPS_M               |-> a.WARPS_M,
    WARPS_N               |-> a.WARPS_N,
    COLS                  |-> a.HIDDEN_SIZE,
    HIDDEN_SIZE           |-> a.HIDDEN_SIZE,
    BYTES_PER_LDG         |-> a.BYTES_PER_LDG,
    NUM_ELTS              |-> Traits_NUM_ELTS(a),
    THREADS_PER_ROW       |-> Traits_THREADS_PER_ROW(a),
    THREADS_PER_CTA       |-> Traits_THREADS_PER_CTA(a),
    ROWS_PER_CTA          |-> Traits_ROWS_PER_CTA(a),
    BYTES_PER_ROW         |-> Traits_BYTES_PER_ROW(a),
    BYTES_PER_ROW_PER_CTA |-> Traits_BYTES_PER_ROW_PER_CTA(a),
    SMEM_BYTES_WGRAD      |-> Traits_SMEM_BYTES_WGRAD(a),
    SMEM_BYTES_DGRAD      |-> Traits_SMEM_BYTES_DGRAD(a),
    SMEM_BYTES            |-> Traits_SMEM_BYTES(a),
    ELTS_PER_LDG          |-> Traits_ELTS_PER_LDG(a),
    VEC_COLS_PER_LDG      |-> Traits_VEC_COLS_PER_LDG(a),
    VEC_COLS              |-> Traits_VEC_COLS(a),
    LDGS                  |-> Traits_LDGS(a) ]

----------------------------------------------------------------------------
(* The state machine: one template instantiation.                          *)

(* No constants exist before the instantiation or after a rejection.       *)
NoEnums == [x \in {} |-> 0]

(* Template arguments of Kernel_traits_finalize.  The resolver reads       *)
(* neither input_t_ nor output_t_, so they are drawn equal to weight_t_.   *)
FinalizeArgs(h, w, c, t, b) ==
  [ HIDDEN_SIZE |-> h, weight_t |-> w, input_t |-> w, output_t |-> w,
    compute_t |-> c, THREADS_PER_CTA |-> t, BYTES_PER_LDG |-> b,
    CTAS_PER_ROW |-> 0, WARPS_M |-> 0, WARPS_N |-> 0,
    REDUCER_SMEM_BYTES |-> 0 ]

(* Template arguments of Kernel_traits; Base::THREADS_PER_CTA is           *)
(* WARPS_M_ * WARPS_N_ * THREADS_PER_WARP.  A block has at least one row   *)
(* (WARPS_M_ >= 1); CTAS_PER_ROW_, WARPS_N_ and BYTES_PER_LDG_ include 0,  *)
(* which the header rejects through a division by zero.                    *)
TraitsArgs(h, w, i, o, c, b, k, m, n, s) ==
  [ HIDDEN_SIZE |-> h, weight_t |-> w, input_t |-> i, output_t |-> o,
    compute_t |-> c, THREADS_PER_CTA |-> m * n * THREADS_PER_WARP,
    BYTES_PER_LDG |-> b,
    CTAS_PER_ROW |-> k, WARPS_M |-> m, WARPS_N |-> n,
    REDUCER_SMEM_BYTES |-> s ]

InitFinalize ==
  /\ traits = "finalize"
  /\ \E h \in HiddenSizes, w \in TypeSizes, c \in TypeSizes,
        t \in ThreadsPerCtaValues, b \in BytesPerLdgValues :
       args = FinalizeArgs(h, w, c, t, b)

InitMain ==
  /\ traits = "main"
  /\ \E h \in HiddenSizes, w \in TypeSizes, i \in TypeSizes,
        o \in TypeSizes, c \in TypeSizes, b \in BytesPerLdgValues,
        k \in 0..MaxCtasPerRow, m \in 1..MaxWarpsM, n \in 0..MaxWarpsN,
        s \in ReducerSmemValues :
       args = TraitsArgs(h, w, i, o, c, b, k, m, n, s)

Init ==
  /\ InitFinalize \/ InitMain
  /\ pc = "pending"
  /\ enums = NoEnums

Kernel_traits_finalize ==
  /\ traits = "finalize"
  /\ pc = "pending"
  /\ IF FinalizeCompiles(args)
       THEN pc' = "accepted" /\ enums' = FinalizeEnums(args)
       ELSE pc' = "rejected" /\ enums' = NoEnums
  /\ UNCHANGED <<traits, args>>

Kernel_traits ==
  /\ traits = "main"
  /\ pc = "pending"
  /\ IF TraitsCompiles(args)
       THEN pc' = "accepted" /\ enums' = TraitsEnums(args)
       ELSE pc' = "rejected" /\ enums' = NoEnums
  /\ UNCHANGED <<traits, args>>

Next == Kernel_traits_finalize \/ Kernel_traits

Spec == Init /\ [][Next]_vars

FinalizeAccepted == traits = "finalize" /\ pc = "accepted"
FinalizeRejected == traits = "finalize" /\ pc = "rejected"
MainAccepted == traits = "main" /\ pc = "accepted"
MainRejected == traits = "main" /\ pc = "rejected"

----------------------------------------------------------------------------
(* Properties.                                                             *)

(* C1: every accepted Kernel_traits configuration tiles the row exactly:   *)
(* LDGS * CTAS_PER_ROW * THREADS_PER_ROW equals HIDDEN_SIZE / ELTS_PER_LDG *)
(* and each of the three divisions of the derivation (BYTES_PER_LDG /      *)
(* sizeof(input_t), HIDDEN_SIZE / ELTS_PER_LDG, VEC_COLS /                 *)
(* VEC_COLS_PER_LDG) has remainder zero.                                   *)
C1_ExactTiling ==
  MainAccepted =>
    /\ enums.LDGS * args.CTAS_PER_ROW * enums.THREADS_PER_ROW
         = args.HIDDEN_SIZE \div enums.ELTS_PER_LDG
    /\ args.BYTES_PER_LDG % args.input_t = 0
    /\ args.HIDDEN_SIZE % enums.ELTS_PER_LDG = 0
    /\ enums.VEC_COLS % enums.VEC_COLS_PER_LDG = 0

(* C2: Kernel_traits_finalize accepts a configuration only if              *)
(* BYTES_PER_LDG is exactly 4; every other width is rejected.              *)
C2_OnlyFourByteLoads ==
  FinalizeAccepted => args.BYTES_PER_LDG = 4

(* C3: every accepted Kernel_traits configuration has WARPS_M > 1 only     *)
(* with CTAS_PER_ROW = 1, and every instantiation with WARPS_M > 1 and     *)
(* CTAS_PER_ROW # 1 is rejected.                                           *)
C3_MultiRowOnlySingleCta ==
  /\ MainAccepted => (args.WARPS_M > 1 => args.CTAS_PER_ROW = 1)
  /\ (traits = "main" /\ pc # "pending"
        /\ args.WARPS_M > 1 /\ args.CTAS_PER_ROW # 1) => pc = "rejected"

C3_Witness ==
  MainAccepted /\ args.WARPS_M > 1 /\ args.CTAS_PER_ROW = 1

(* C4: for every accepted Kernel_traits_finalize configuration COLS is the *)
(* exact quotient HIDDEN_SIZE * sizeof(compute_t) / BYTES_PER_LDG and CTAS *)
(* is the exact quotient COLS / 32; an instantiation in which either       *)
(* division leaves a remainder is rejected.                                *)
C4_ColsAndCtasExact ==
  /\ FinalizeAccepted =>
       /\ enums.COLS * args.BYTES_PER_LDG = args.HIDDEN_SIZE * args.compute_t
       /\ enums.COLS % 32 = 0
       /\ enums.CTAS * 32 = enums.COLS
  /\ (traits = "finalize" /\ pc # "pending" /\ args.BYTES_PER_LDG # 0
        /\ \/ (args.HIDDEN_SIZE * args.compute_t) % args.BYTES_PER_LDG # 0
           \/ ((args.HIDDEN_SIZE * args.compute_t)
                 \div args.BYTES_PER_LDG) % 32 # 0)
       => pc = "rejected"

C4_Witness ==
  FinalizeAccepted /\ enums.COLS > 0 /\ enums.CTAS > 1
    /\ args.BYTES_PER_LDG # args.compute_t

(* C5: Kernel_traits_finalize accepts THREADS_PER_CTA only if it is an     *)
(* exact multiple of 32 with ROWS_PER_CTA = THREADS_PER_CTA / 32 at most   *)
(* 32; THREADS_PER_CTA = 2048 and every non-multiple of 32 are rejected.   *)
C5_WholeWarpsAtMost32Rows ==
  /\ FinalizeAccepted =>
       /\ args.THREADS_PER_CTA % 32 = 0
       /\ enums.ROWS_PER_CTA * 32 = args.THREADS_PER_CTA
       /\ enums.ROWS_PER_CTA <= 32
  /\ (traits = "finalize" /\ pc # "pending"
        /\ (args.THREADS_PER_CTA = 2048 \/ args.THREADS_PER_CTA % 32 # 0))
       => pc = "rejected"

(* THREADS_PER_CTA = 1024 (ROWS_PER_CTA = 32) is accepted.                 *)
C5_Witness ==
  FinalizeAccepted /\ args.THREADS_PER_CTA = 1024 /\ enums.ROWS_PER_CTA = 32

(* C6: for every accepted Kernel_traits configuration SMEM_BYTES_WGRAD is  *)
(* 0 when CTAS_PER_ROW > 1 and ROWS_PER_CTA * HIDDEN_SIZE *                *)
(* sizeof(compute_t) otherwise, and SMEM_BYTES is the sum of the backward  *)
(* reduction region and the weight-gradient region.                        *)
C6_SmemWgradAndTotal ==
  MainAccepted =>
    /\ args.CTAS_PER_ROW > 1 => enums.SMEM_BYTES_WGRAD = 0
    /\ ~(args.CTAS_PER_ROW > 1) =>
         enums.SMEM_BYTES_WGRAD
           = enums.ROWS_PER_CTA * args.HIDDEN_SIZE * args.compute_t
    /\ enums.ROWS_PER_CTA = args.WARPS_M
    /\ enums.SMEM_BYTES = args.REDUCER_SMEM_BYTES + enums.SMEM_BYTES_WGRAD

C6_Witness ==
  MainAccepted /\ args.CTAS_PER_ROW = 1 /\ args.WARPS_M = 2
    /\ enums.SMEM_BYTES_WGRAD > 0 /\ args.REDUCER_SMEM_BYTES > 0
    /\ enums.SMEM_BYTES > enums.SMEM_BYTES_WGRAD

(* C7: Kernel_traits rejects every configuration whose input element is    *)
(* smaller than the output element or the weight element; every accepted   *)
(* configuration has sizeof(input_t) >= sizeof(output_t) and               *)
(* sizeof(input_t) >= sizeof(weight_t).                                    *)
C7_InputAtLeastOutputAndWeight ==
  /\ MainAccepted =>
       args.input_t >= args.output_t /\ args.input_t >= args.weight_t
  /\ (traits = "main" /\ pc # "pending"
        /\ (args.input_t < args.output_t \/ args.input_t < args.weight_t))
       => pc = "rejected"

C7_Witness ==
  MainAccepted /\ args.input_t > args.output_t /\ args.input_t = args.weight_t
    /\ args.compute_t < args.output_t

(* C8: for every accepted Kernel_traits_finalize configuration             *)
(* SMEM_BYTES_PER_CTA = 2 * (THREADS_PER_CTA * BYTES_PER_LDG)              *)
(* + 2 * (32 * BYTES_PER_LDG).                                             *)
C8_FinalizeSmemTotal ==
  FinalizeAccepted =>
    enums.SMEM_BYTES_PER_CTA
      = 2 * (args.THREADS_PER_CTA * args.BYTES_PER_LDG)
          + 2 * (32 * args.BYTES_PER_LDG)

C8_Witness ==
  FinalizeAccepted /\ args.THREADS_PER_CTA = 1024 /\ args.BYTES_PER_LDG = 4
    /\ enums.SMEM_BYTES_PER_CTA = 8448

(* C9: the check the header leaves commented out,                          *)
(* LDGS * BYTES_PER_ROW_PER_CTA * CTAS_PER_ROW == BYTES_PER_ROW, holds for *)
(* every accepted Kernel_traits configuration.                             *)
C9_LoadsCoverRowBytes ==
  MainAccepted =>
    enums.LDGS * enums.BYTES_PER_ROW_PER_CTA * enums.CTAS_PER_ROW
      = enums.BYTES_PER_ROW

(* C10: for every accepted Kernel_traits_finalize configuration            *)
(* ELTS_PER_LDG is at least 1 and divides BYTES_PER_LDG exactly, so        *)
(* BYTES_PER_STG is greater than 0.                                        *)
C10_FinalizeEltsPerLdgPositive ==
  FinalizeAccepted =>
    /\ enums.ELTS_PER_LDG >= 1
    /\ enums.ELTS_PER_LDG * args.compute_t = args.BYTES_PER_LDG
    /\ enums.BYTES_PER_STG > 0

====
